---- MODULE Spec2Model ----
(***************************************************************************)
(* A model of the flight simulator's simulation core: the FlightSimulator  *)
(* class (frame loop, flight model, projectiles, targets, obstacles,       *)
(* weather, game over / reset, dispose) and the events that drive it.      *)
(*                                                                         *)
(* The program computes in IEEE doubles; the model computes in fixed       *)
(* point, thousandths of the program's unit, truncating toward zero:       *)
(*   lengths and positions   1/1000 world unit                             *)
(*   speed                   1/1000 world unit per frame                   *)
(*   angles                  1/1000 radian                                 *)
(*   unit vectors, sines     1/1000                                        *)
(*   weather intensity       1/1000                                        *)
(*   time                    milliseconds (Date.now())                     *)
(* so maxSpeed = 3 is 3000, minSpeed = 0.5 is 500, PI / 3 is 1047.         *)
(***************************************************************************)
EXTENDS Integers, Sequences, FiniteSets

VARIABLES
    \* FlightSimulator fields (part_001 lines 13-43)
    speed, pitch, roll, yaw, altitude,
    position,          \* airplane.position, <<x, y, z>>
    rotation,          \* airplane.rotation, as the <<yaw, pitch, roll>> last applied to it
    keys,              \* the keys k with keys[k] === true
    bullets,           \* sequence of [id, position, velocity]
    balloons,          \* sequence of [id, position, velocity]
    score, lastShot, health, isGameOver,
    weatherIntensity, startTime, elapsedTime, isShooting,
    difficulty,
    environment,       \* the constructor's environment parameter
    mobileControls,    \* TRUE when the constructor built a MobileControls
    \* MobileControls fields (part_000 lines 4-9)
    currentPitch, currentRoll, currentThrottle,
    mobileIsShooting,  \* MobileControls.isShooting
    joysticks,         \* TRUE while the two nipplejs joysticks exist
    weatherUpdateInterval,  \* TRUE while the setInterval of line 161 is active
    \* the browser around it
    now,               \* Date.now()
    frameTime,         \* Date.now() of the latest animation frame
    animationFrame,    \* TRUE while a requestAnimationFrame callback is pending
    listeners,         \* window listeners, as [type, fn]
    timeouts,          \* due times of the pending respawn setTimeout callbacks
    weatherDue,        \* when the weather interval fires next
    disposed,          \* dispose() has returned
    nextId,            \* identity of the next object created
    \* history of the run, read by the properties only
    hits,              \* [bullet, target, at] of each hit of the latest updateBullets pass
    shootCalls,        \* [at, spawned, flying] of each shoot() call so far
    frames, events     \* how many frames and input events have run

vars == <<speed, pitch, roll, yaw, altitude, position, rotation, keys, bullets, balloons,
          score, lastShot, health, isGameOver, weatherIntensity, startTime,
          elapsedTime, isShooting, difficulty, environment, mobileControls, currentPitch,
          currentRoll, currentThrottle, mobileIsShooting, joysticks,
          weatherUpdateInterval, now, frameTime, animationFrame, listeners,
          timeouts, weatherDue, disposed, nextId, hits, shootCalls, frames, events>>

-----------------------------------------------------------------------------
(* Bounds of the model *)

MaxFrames == 3
MaxEvents == 1
\* frames of a run that holds the throttle from rest up to the speed limit
MaxThrottleFrames == 52
\* frames of a run that keeps flying into the ground
MaxLandingFrames == 11
\* frames of the runs that are compared across environments
MaxEnvironmentFrames == 2
\* frames of a run that fires on the way into an obstacle
MaxStrikeFrames == 3
\* frames of a run that watches the targets patrol
MaxPatrolFrames == 30
\* frames of a run that fires far from the origin
MaxRangeFrames == 3
\* frames of a run that is followed until its targets are back
MaxRespawnFrames == 2

-----------------------------------------------------------------------------
(* Program constants, in the model's units *)

maxSpeed == 3000
minSpeed == 500
shotCooldown == 50
initialHealth == 100
throttleStep == 50
pitchStep == 20
yawStep == 10
groundFloor == 500
groundPenalty == 100
hardLandingSpeed == 1000
hardLandingDamage == 10
collisionDamage == 20
collisionPush == 20000
obstacleMargin == 10000
obstacleCount == 8
obstacleRadius == 200
balloonCount == 20
hitRadius == 6000
hitReward == 100
respawnDelay == 2000
bulletSpeed == 12
bulletRange == 1000000
weatherInterval == 100
balloonBounds == 500000

initialPosition == <<0, 2000, 50000>>
initialRotation == <<0, 0, 0>>

\* Math.PI and its fractions, in thousandths of a radian
PI == 3142
TwoPI == 6283
HalfPI == 1571
PiThird == 1047
PiSixth == 524

-----------------------------------------------------------------------------
(* Arithmetic *)

Abs(x) == IF x < 0 THEN -x ELSE x
Min(a, b) == IF a < b THEN a ELSE b
Max(a, b) == IF a > b THEN a ELSE b

\* a / b for b > 0, truncated toward zero
Quot(a, b) == IF a >= 0 THEN a \div b ELSE -((-a) \div b)

\* x * (m / 1000): multiplication by a factor given in thousandths
Scale(x, m) == Quot(x * m, 1000)

\* Math.sin on thousandths of a radian, to thousandths (Bhaskara's rational
\* approximation on each half period; exact at 0, PI/2, PI).
SinHalf(x) == (16 * x * (PI - x)) \div ((5 * PI * PI - 4 * x * (PI - x)) \div 1000)
Sin(x) ==
    LET r == x % TwoPI
    IN IF r <= PI THEN Min(1000, SinHalf(r)) ELSE -Min(1000, SinHalf(Min(r - PI, PI)))
Cos(x) == Sin(x + HalfPI)

RECURSIVE SqrtBetween(_, _, _)
SqrtBetween(n, lo, hi) ==
    IF lo >= hi THEN lo
    ELSE LET mid == (lo + hi + 1) \div 2
         IN IF mid * mid <= n THEN SqrtBetween(n, mid, hi)
            ELSE SqrtBetween(n, lo, mid - 1)
\* Math.sqrt, rounded down, for 0 <= n < 2^30
Sqrt(n) == SqrtBetween(n, 0, 32767)

-----------------------------------------------------------------------------
(* THREE.Vector3 *)

VAdd(a, b) == <<a[1] + b[1], a[2] + b[2], a[3] + b[3]>>
VSub(a, b) == <<a[1] - b[1], a[2] - b[2], a[3] - b[3]>>
\* v.multiplyScalar(m / 1000)
VScale(v, m) == <<Scale(v[1], m), Scale(v[2], m), Scale(v[3], m)>>

\* a.distanceTo(b) < r, for r < 2^14 * 1000 / 1000 (no overflow: the squares are
\* taken only once each difference is below r)
DistanceBelow(a, b, r) ==
    LET d == VSub(a, b)
    IN /\ Abs(d[1]) < r /\ Abs(d[2]) < r /\ Abs(d[3]) < r
       /\ d[1] * d[1] + d[2] * d[2] + d[3] * d[3] < r * r

\* v.length() > r, compared in tenths of a unit
LengthAbove(v, r) ==
    LET x == Quot(v[1], 100)
        y == Quot(v[2], 100)
        z == Quot(v[3], 100)
        q == Quot(r, 100)
    IN \/ Abs(x) > q \/ Abs(y) > q \/ Abs(z) > q
       \/ x * x + y * y + z * z > q * q

\* v.normalize().multiplyScalar(len / 1000), for |v| components below 2^14 * 1000 / 1000;
\* normalize() leaves the zero vector as it is
NormalizeTo(v, len) ==
    LET l == Sqrt(v[1] * v[1] + v[2] * v[2] + v[3] * v[3])
    IN IF l = 0 THEN <<0, 0, 0>>
       ELSE <<Quot(v[1] * len, l), Quot(v[2] * len, l), Quot(v[3] * len, l)>>

\* new Vector3(0, 0, -1).applyQuaternion(airplane.quaternion) after
\* rotateY(yaw), rotateX(pitch), rotateZ(roll): the roll turns about the
\* forward axis and leaves it where it is.
Forward(y, p) ==
    <<-Scale(Sin(y), Cos(p)), Sin(p), -Scale(Cos(y), Cos(p))>>

-----------------------------------------------------------------------------
(* The simulator as one record, so that a handler's calls compose *)

Sim ==
    [speed |-> speed, pitch |-> pitch, roll |-> roll, yaw |-> yaw,
     altitude |-> altitude, position |-> position, rotation |-> rotation,
     keys |-> keys, bullets |-> bullets, balloons |-> balloons, score |-> score,
     lastShot |-> lastShot, health |-> health, isGameOver |-> isGameOver,
     weatherIntensity |-> weatherIntensity, startTime |-> startTime,
     elapsedTime |-> elapsedTime, isShooting |-> isShooting,
     difficulty |-> difficulty, environment |-> environment,
     timeouts |-> timeouts, nextId |-> nextId,
     hits |-> hits, shootCalls |-> shootCalls]

\* the fields of Sim a handler may write
Commit(s) ==
    /\ speed' = s.speed /\ pitch' = s.pitch /\ roll' = s.roll /\ yaw' = s.yaw
    /\ altitude' = s.altitude /\ position' = s.position /\ rotation' = s.rotation
    /\ keys' = s.keys /\ bullets' = s.bullets /\ balloons' = s.balloons
    /\ score' = s.score /\ lastShot' = s.lastShot /\ health' = s.health
    /\ isGameOver' = s.isGameOver /\ weatherIntensity' = s.weatherIntensity
    /\ startTime' = s.startTime /\ elapsedTime' = s.elapsedTime
    /\ isShooting' = s.isShooting /\ timeouts' = s.timeouts
    /\ nextId' = s.nextId /\ hits' = s.hits /\ shootCalls' = s.shootCalls

\* array.splice(i, 1), 1-based; an index past the end removes nothing
Splice(q, i) ==
    IF i < 1 \/ i > Len(q) THEN q
    ELSE SubSeq(q, 1, i - 1) \o SubSeq(q, i + 1, Len(q))

\* the velocity of a target that has none (simple difficulty)
NoVelocity == <<>>

-----------------------------------------------------------------------------
(* Game state *)

gameOver(s) == [s EXCEPT !.isGameOver = TRUE]

\* resetAirplane that starts the score over as well
resetAirplane_ResetsScore(s, t) ==
    [s EXCEPT !.position = initialPosition,
              !.rotation = initialRotation,
              !.speed = 0, !.pitch = 0, !.roll = 0, !.yaw = 0,
              !.health = initialHealth,
              !.isGameOver = FALSE,
              !.startTime = t,
              !.score = 0]

\* resetAirplane without the line that restores health
resetAirplane_KeepsHealth(s, t) ==
    [s EXCEPT !.position = initialPosition,
              !.rotation = initialRotation,
              !.speed = 0, !.pitch = 0, !.roll = 0, !.yaw = 0,
              !.isGameOver = FALSE,
              !.startTime = t]

resetAirplane(s, t) ==
    [s EXCEPT !.position = initialPosition,
              !.rotation = initialRotation,
              !.speed = 0, !.pitch = 0, !.roll = 0, !.yaw = 0,
              !.health = initialHealth,
              !.isGameOver = FALSE,
              !.startTime = t]

\* updateTimer without the isGameOver test of line 210
updateTimer_Always(s, t) == [s EXCEPT !.elapsedTime = t - s.startTime]

updateTimer(s, t) ==
    IF ~s.isGameOver THEN [s EXCEPT !.elapsedTime = t - s.startTime] ELSE s

-----------------------------------------------------------------------------
(* Weather *)

setWeatherIntensity(s, intensity) ==
    [s EXCEPT !.weatherIntensity = Max(0, Min(1000, intensity))]

\* 0.3 + Math.sin(Date.now() * 0.0005) * 0.3; the rain and cloud arrays it
\* also moves are the renderer's
updateWeather(s, t) ==
    setWeatherIntensity(s, 300 + Scale(Sin(t \div 2), 300))

-----------------------------------------------------------------------------
(* Environment: what the constructor and createEnvironment take from it *)

Environments == {"default", "desert", "snow", "night"}

\* scene.background (lines 125-144)
sceneBackground(e) == IF e = "night" THEN "000033" ELSE "87CEEB"

\* groundColor of createEnvironment (lines 530-533)
groundColor(e) ==
    IF e = "desert" THEN "ffd700"
    ELSE IF e = "snow" THEN "ffffff"
    ELSE IF e = "night" THEN "1a1a1a"
    ELSE "90EE90"

-----------------------------------------------------------------------------
(* Obstacles *)

\* createObstacles: obstacle i of 0..7 on a circle of radius 200
obstaclePosition(i) ==
    LET angle == (i * TwoPI) \div obstacleCount
    IN <<Cos(angle) * obstacleRadius,
         100000 + Sin(angle * 2) * 50,
         Sin(angle) * obstacleRadius>>

obstacles == [i \in 1..obstacleCount |-> obstaclePosition(i - 1)]

\* Math.max(size.x, size.y, size.z) * 1.5 of the airplane's bounding box: the
\* group of createAirplane spans 5.05 x 1.3 x 1 at scale 0.7, taken level
collisionRadius == 5302

\* the body of the if of line 792 without the knockback of lines 809-814
collide_NoKnockback(s, o) ==
    LET s1 == [s EXCEPT !.health = s.health - collisionDamage]
        s2 == IF s1.health <= 0 THEN gameOver(s1) ELSE s1
    IN [s2 EXCEPT !.speed = Scale(s2.speed, 300)]

\* the body of the if of line 792, for the obstacle hit
collide(s, o) ==
    LET s1 == [s EXCEPT !.health = s.health - collisionDamage]
        s2 == IF s1.health <= 0 THEN gameOver(s1) ELSE s1
        pushDirection == NormalizeTo(VSub(s2.position, o), collisionPush)
    IN [s2 EXCEPT !.position = VAdd(s2.position, pushDirection),
                  !.speed = Scale(s2.speed, 300)]

RECURSIVE checkObstacles(_, _)
\* the for of line 789, from obstacle i on: the first obstacle in reach is
\* resolved and ends the loop
checkObstacles(s, i) ==
    IF i > obstacleCount THEN s
    ELSE IF DistanceBelow(s.position, obstacles[i], collisionRadius + obstacleMargin)
         THEN collide(s, obstacles[i])
         ELSE checkObstacles(s, i + 1)

checkCollisions(s) ==
    IF s.isGameOver THEN s ELSE checkObstacles(s, 1)

-----------------------------------------------------------------------------
(* Projectiles and targets *)

\* shoot without the isGameOver return of line 423
shoot_NoGameOverReturn(s, t) ==
    IF t - s.lastShot < shotCooldown
    THEN [s EXCEPT !.shootCalls = Append(@, [at |-> t, spawned |-> FALSE, flying |-> ~s.isGameOver])]
    ELSE LET direction == Forward(s.rotation[1], s.rotation[2])
             bullet == [id |-> s.nextId,
                        position |-> s.position,
                        velocity |-> <<direction[1] * bulletSpeed,
                                       direction[2] * bulletSpeed,
                                       direction[3] * bulletSpeed>>]
         IN [s EXCEPT !.lastShot = t,
                      !.bullets = Append(@, bullet),
                      !.nextId = @ + 1,
                      !.shootCalls = Append(@, [at |-> t, spawned |-> TRUE, flying |-> ~s.isGameOver])]

\* shoot without the line that records the time of the shot
shoot_KeepsLastShot(s, t) ==
    IF s.isGameOver
    THEN [s EXCEPT !.shootCalls = Append(@, [at |-> t, spawned |-> FALSE, flying |-> FALSE])]
    ELSE IF t - s.lastShot < shotCooldown
    THEN [s EXCEPT !.shootCalls = Append(@, [at |-> t, spawned |-> FALSE, flying |-> TRUE])]
    ELSE LET direction == Forward(s.rotation[1], s.rotation[2])
             bullet == [id |-> s.nextId,
                        position |-> s.position,
                        velocity |-> <<direction[1] * bulletSpeed,
                                       direction[2] * bulletSpeed,
                                       direction[3] * bulletSpeed>>]
         IN [s EXCEPT !.bullets = Append(@, bullet),
                      !.nextId = @ + 1,
                      !.shootCalls = Append(@, [at |-> t, spawned |-> TRUE, flying |-> TRUE])]

shoot(s, t) ==
    IF s.isGameOver
    THEN [s EXCEPT !.shootCalls = Append(@, [at |-> t, spawned |-> FALSE, flying |-> FALSE])]
    ELSE IF t - s.lastShot < shotCooldown
    THEN [s EXCEPT !.shootCalls = Append(@, [at |-> t, spawned |-> FALSE, flying |-> TRUE])]
    ELSE LET direction == Forward(s.rotation[1], s.rotation[2])
             bullet == [id |-> s.nextId,
                        position |-> s.position,
                        velocity |-> <<direction[1] * bulletSpeed,
                                       direction[2] * bulletSpeed,
                                       direction[3] * bulletSpeed>>]
         IN [s EXCEPT !.lastShot = t,
                      !.bullets = Append(@, bullet),
                      !.nextId = @ + 1,
                      !.shootCalls = Append(@, [at |-> t, spawned |-> TRUE, flying |-> TRUE])]

\* hitTarget without the setTimeout that brings a target back
hitTarget_NoRespawn(s, i, bullet, j, t) ==
    [s EXCEPT !.balloons = Splice(@, j),
              !.bullets = Splice(@, i),
              !.score = @ + hitReward,
              !.hits = Append(@, [bullet |-> bullet.id, target |-> s.balloons[j].id,
                                  at |-> bullet.position])]

\* the body of the if of line 497: target j and projectile i leave their
\* lists, the score rises, a respawn is scheduled
hitTarget(s, i, bullet, j, t) ==
    [s EXCEPT !.balloons = Splice(@, j),
              !.bullets = Splice(@, i),
              !.score = @ + hitReward,
              !.timeouts = Append(@, t + respawnDelay),
              !.hits = Append(@, [bullet |-> bullet.id, target |-> s.balloons[j].id,
                                  at |-> bullet.position])]

RECURSIVE checkHits_NoBreak(_, _, _, _, _)
\* the for of line 493 without the break of line 523: the scan goes on after a hit
checkHits_NoBreak(s, i, bullet, j, t) ==
    IF j < 1 THEN s
    ELSE IF j <= Len(s.balloons)
            /\ DistanceBelow(bullet.position, s.balloons[j].position, hitRadius)
         THEN checkHits_NoBreak(hitTarget(s, i, bullet, j, t), i, bullet, j - 1, t)
         ELSE checkHits_NoBreak(s, i, bullet, j - 1, t)

RECURSIVE checkHits(_, _, _, _, _)
\* the for of line 493 from target j down, for the projectile at index i; the
\* break of line 523 ends it at the first hit
checkHits(s, i, bullet, j, t) ==
    IF j < 1 THEN s
    ELSE IF j <= Len(s.balloons)
            /\ DistanceBelow(bullet.position, s.balloons[j].position, hitRadius)
         THEN hitTarget(s, i, bullet, j, t)
         ELSE checkHits(s, i, bullet, j - 1, t)

RECURSIVE bulletLoop(_, _, _)
\* the for of line 483 from projectile i down
bulletLoop(s, i, t) ==
    IF i < 1 THEN s
    ELSE LET bullet == [s.bullets[i] EXCEPT !.position = VAdd(@, s.bullets[i].velocity)]
             moved == [s EXCEPT !.bullets[i] = bullet]
         IN IF LengthAbove(bullet.position, bulletRange)
            THEN bulletLoop([moved EXCEPT !.bullets = Splice(@, i)], i - 1, t)
            ELSE bulletLoop(checkHits(moved, i, bullet, Len(moved.balloons), t), i - 1, t)

updateBullets(s, t) == bulletLoop([s EXCEPT !.hits = <<>>], Len(s.bullets), t)

\* the callback of the setTimeout of line 505 without lines 512-518
respawn_NoVelocity(s, pos, vel) ==
    LET newBalloon == [id |-> s.nextId, position |-> pos, velocity |-> NoVelocity]
    IN [s EXCEPT !.balloons = Append(@, newBalloon),
                 !.nextId = @ + 1,
                 !.timeouts = Tail(@)]

\* the callback of the setTimeout of line 505; position and velocity are its
\* Math.random() draws
respawn(s, pos, vel) ==
    LET newBalloon == [id |-> s.nextId,
                       position |-> pos,
                       velocity |-> IF s.difficulty = "hard" THEN vel ELSE NoVelocity]
    IN [s EXCEPT !.balloons = Append(@, newBalloon),
                 !.nextId = @ + 1,
                 !.timeouts = Tail(@)]

\* one target's step of updateBalloons
moveBalloon(b, t) ==
    IF b.velocity = NoVelocity THEN b
    ELSE LET p == VAdd(b.position, b.velocity)
             vx == IF Abs(p[1]) > balloonBounds THEN -b.velocity[1] ELSE b.velocity[1]
             vy == IF Abs(p[2] - 125000) > 75000 THEN -b.velocity[2] ELSE b.velocity[2]
             vz == IF Abs(p[3]) > balloonBounds THEN -b.velocity[3] ELSE b.velocity[3]
         IN [b EXCEPT !.position = p,
                      !.velocity = <<vx, vy + Scale(Sin(t), 10), vz>>]

updateBalloons(s, t) ==
    IF s.difficulty = "hard"
    THEN [s EXCEPT !.balloons = [j \in 1..Len(s.balloons) |-> moveBalloon(s.balloons[j], t)]]
    ELSE s

-----------------------------------------------------------------------------
(* Flight model: the steps of updateFlight, in the order of the code *)

\* lines 327-333
throttle(s) ==
    IF "w" \in s.keys THEN [s EXCEPT !.speed = Min(s.speed + throttleStep, maxSpeed)]
    ELSE IF "s" \in s.keys THEN [s EXCEPT !.speed = Max(s.speed - throttleStep, 0)]
    ELSE s

\* updateFlight without lines 337-339
clampMinSpeed_Off(s) == s

\* lines 337-339
clampMinSpeed(s) ==
    IF s.speed > 0 /\ s.speed < minSpeed THEN [s EXCEPT !.speed = minSpeed] ELSE s

\* lines 342-344 with a penalty that snow doubles
weatherPenalty_Snow(s) ==
    IF s.weatherIntensity > 500
    THEN [s EXCEPT !.speed = Scale(s.speed, 1000 - (IF s.environment = "snow" THEN 2 ELSE 1)
                                                       * Quot(s.weatherIntensity, 100))]
    ELSE s

\* lines 342-344: speed *= 1 - weatherIntensity * 0.01
weatherPenalty(s) ==
    IF s.weatherIntensity > 500
    THEN [s EXCEPT !.speed = Scale(s.speed, 1000 - Quot(s.weatherIntensity, 100))]
    ELSE s

\* lines 346-365 without the Math.min / Math.max against PI / 3
steer_NoClamp(s) ==
    LET p == IF "ArrowUp" \in s.keys THEN s.pitch + pitchStep
             ELSE IF "ArrowDown" \in s.keys THEN s.pitch - pitchStep
             ELSE s.pitch
        r == IF "ArrowLeft" \in s.keys THEN s.roll + pitchStep
             ELSE IF "ArrowRight" \in s.keys THEN s.roll - pitchStep
             ELSE Scale(s.roll, 950)
        y == IF "ArrowLeft" \in s.keys THEN s.yaw + yawStep
             ELSE IF "ArrowRight" \in s.keys THEN s.yaw - yawStep
             ELSE s.yaw
    IN [s EXCEPT !.pitch = p, !.roll = r, !.yaw = y, !.rotation = <<y, p, r>>]

\* lines 346-365
steer(s) ==
    LET p == IF "ArrowUp" \in s.keys THEN Min(s.pitch + pitchStep, PiThird)
             ELSE IF "ArrowDown" \in s.keys THEN Max(s.pitch - pitchStep, -PiThird)
             ELSE s.pitch
        r == IF "ArrowLeft" \in s.keys THEN Min(s.roll + pitchStep, PiThird)
             ELSE IF "ArrowRight" \in s.keys THEN Max(s.roll - pitchStep, -PiThird)
             ELSE Scale(s.roll, 950)
        y == IF "ArrowLeft" \in s.keys THEN s.yaw + yawStep
             ELSE IF "ArrowRight" \in s.keys THEN s.yaw - yawStep
             ELSE s.yaw
    IN [s EXCEPT !.pitch = p, !.roll = r, !.yaw = y, !.rotation = <<y, p, r>>]

\* lines 367-378; rx and ry are the two draws of Math.random() - 0.5
translate(s, rx, ry) ==
    LET forward == Forward(s.rotation[1], s.rotation[2])
        lift == Max(0, Scale(s.speed, 20))
        gustX == IF s.weatherIntensity > 500 THEN Scale(Scale(rx, 100), s.weatherIntensity) ELSE 0
        gustY == IF s.weatherIntensity > 500 THEN Scale(Scale(ry, 100), s.weatherIntensity) ELSE 0
        direction == <<forward[1] + gustX, forward[2] + lift + gustY, forward[3]>>
    IN [s EXCEPT !.position = VAdd(s.position, VScale(direction, s.speed))]

\* lines 385-390 without the gameOver() call
hardLanding_NoGameOver(s) ==
    [s EXCEPT !.health = s.health - hardLandingDamage]

\* lines 385-390
hardLanding(s) ==
    LET s1 == [s EXCEPT !.health = s.health - hardLandingDamage]
    IN IF s1.health <= 0 THEN gameOver(s1) ELSE s1

\* lines 380-392 without the clamp of line 382
groundContact_NoClamp(s) ==
    LET s1 == [s EXCEPT !.altitude = s.position[2]]
    IN IF s1.altitude < groundFloor
       THEN LET s2 == [s1 EXCEPT !.speed = Max(0, s1.speed - groundPenalty)]
            IN IF s2.speed > hardLandingSpeed THEN hardLanding(s2) ELSE s2
       ELSE s1

\* lines 380-392
groundContact(s) ==
    LET s1 == [s EXCEPT !.altitude = s.position[2]]
    IN IF s1.altitude < groundFloor
       THEN LET s2 == [s1 EXCEPT !.position[2] = groundFloor,
                                 !.speed = Max(0, s1.speed - groundPenalty)]
            IN IF s2.speed > hardLandingSpeed THEN hardLanding(s2) ELSE s2
       ELSE s1

updateFlight(s, t, rx, ry) ==
    IF s.isGameOver THEN s
    ELSE updateBullets(
             updateWeather(
                 checkCollisions(
                     groundContact(
                         translate(steer(weatherPenalty(clampMinSpeed(throttle(s)))),
                                   rx, ry))),
                 t),
             t)

\* lines 308-321, after the requestAnimationFrame of line 309
animate(s, t, rx, ry) ==
    LET s1 == updateTimer(updateBalloons(updateFlight(s, t, rx, ry), t), t)
    IN IF s1.isShooting THEN shoot(s1, t) ELSE s1

\* lines 264-281
handleMobileControls(s, controls) ==
    LET s1 == [s EXCEPT !.pitch = Scale(controls.pitch, PiSixth),
                        !.roll = Scale(controls.roll, PiSixth)]
        s2 == IF controls.throttle
              THEN [s1 EXCEPT !.speed = Min(s1.speed + throttleStep, maxSpeed)]
              ELSE IF controls.brake
              THEN [s1 EXCEPT !.speed = Max(s1.speed - throttleStep, 0)]
              ELSE s1
    IN [s2 EXCEPT !.isShooting = controls.fire]

-----------------------------------------------------------------------------
(* The inputs of the model *)

Keys == {"w", "s", "ArrowUp", "ArrowDown", "ArrowLeft", "ArrowRight", " ", "r"}

\* nipplejs vector components
AxisValues == {-1000, 1000}

\* how far Date.now() moves between two animation frames: a frame at the
\* display's rate, or a pause longer than the respawn delay (a hidden tab).
\* The pause is taken where a deadline is running that it passes: the shot
\* cooldown of a held fire key, a pending respawn.
frameInterval == 20
pauseInterval == 2000

\* the two draws of Math.random() - 0.5 of a frame in bad weather, at their extremes
RandomDraws == {<<-500, 499>>, <<499, -500>>}

\* the Math.random() draws of a respawn: a position in
\* [-500, 500) x [50, 250) x [-500, 500) and a patrol velocity
RespawnPositions == {<<120000, 230000, -300000>>}
RespawnVelocities == {<<-250, 200, 249>>}

\* the Math.random() draws of spawnBalloons, for target i of 1..20: two
\* targets close to each other, a third a few units nearer the aircraft's
\* course, a fourth beside the southern obstacle, the others spread over
\* the range
balloonStart(i) ==
    IF i = 1 THEN <<0, 100000, 36000>>
    ELSE IF i = 2 THEN <<0, 103000, 38000>>
    ELSE IF i = 3 THEN <<0, 100020, 46000>>
    ELSE IF i = 4 THEN <<0, 104000, -196000>>
    ELSE <<-500000 + 45000 * i, 50000 + 9000 * i, 400000>>
balloonVelocity(i) == <<-250 + 24 * i, 200 - 20 * i, 249 - 24 * i>>

spawnBalloons(d) ==
    [i \in 1..balloonCount |->
        [id |-> i,
         position |-> balloonStart(i),
         velocity |-> IF d = "hard" THEN balloonVelocity(i) ELSE NoVelocity]]

\* The states a run starts from: the state init() leaves, and states of a
\* game in progress that the aircraft reaches by flying: low over the ground
\* nose down (once in a steep banked dive, close to the limits of pitch and
\* roll), about to enter an obstacle's reach, and level with targets
\* ahead and the fire key held; with full health and with the health left
\* after one hard landing and four collisions. `now` is Date.now() then: the
\* weather's sine is low at 112094, about to pass 0.5 on its way up at
\* 102000, and on its way down at 105528.
Scenarios ==
    {[position |-> initialPosition, speed |-> 0, pitch |-> 0, roll |-> 0, health |-> initialHealth,
      keys |-> {}, mobile |-> FALSE, started |-> FALSE, difficulty |-> "simple", environment |-> "default",
      now |-> 112094],
     [position |-> <<0, 600, 0>>, speed |-> 2000, pitch |-> -1040, roll |-> 1040, health |-> initialHealth,
      keys |-> {}, mobile |-> FALSE, started |-> TRUE, difficulty |-> "simple", environment |-> "desert",
      now |-> 112094],
     [position |-> <<0, 600, 0>>, speed |-> 2000, pitch |-> -300, roll |-> 0, health |-> 10,
      keys |-> {}, mobile |-> TRUE, started |-> TRUE, difficulty |-> "hard", environment |-> "snow",
      now |-> 112094],
     [position |-> <<0, 100000, -184000>>, speed |-> 1500, pitch |-> 0, roll |-> 0, health |-> initialHealth,
      keys |-> {}, mobile |-> FALSE, started |-> TRUE, difficulty |-> "simple", environment |-> "night",
      now |-> 102000],
     [position |-> <<0, 100000, -183000>>, speed |-> 3000, pitch |-> 0, roll |-> 0, health |-> 10,
      keys |-> {}, mobile |-> FALSE, started |-> TRUE, difficulty |-> "simple", environment |-> "default",
      now |-> 112094],
     [position |-> <<0, 100000, 50000>>, speed |-> 1000, pitch |-> 0, roll |-> 0, health |-> initialHealth,
      keys |-> {" "}, mobile |-> FALSE, started |-> TRUE, difficulty |-> "simple", environment |-> "desert",
      now |-> 105528],
     [position |-> <<0, 100000, 50000>>, speed |-> 1000, pitch |-> 0, roll |-> 0, health |-> initialHealth,
      keys |-> {" "}, mobile |-> FALSE, started |-> TRUE, difficulty |-> "hard", environment |-> "night",
      now |-> 105528]}

-----------------------------------------------------------------------------
(* The state after the constructor and init(), whose first animate() has   *)
(* set altitude and weather, or a later state of the game                  *)

\* the state of a run that starts from scenario sc
InitOf(sc) ==
    /\ now = sc.now
    /\ frameTime = now
    /\ speed = sc.speed /\ pitch = sc.pitch /\ roll = sc.roll /\ yaw = 0
    /\ position = sc.position
    /\ rotation = <<0, sc.pitch, sc.roll>>
    /\ altitude = sc.position[2]
    /\ keys = sc.keys
    /\ isShooting = (" " \in sc.keys)
    /\ bullets = <<>>
    /\ balloons = spawnBalloons(sc.difficulty)
    /\ score = 0 /\ lastShot = 0
    /\ health = sc.health /\ isGameOver = FALSE
    /\ weatherIntensity = 300 + Scale(Sin(now \div 2), 300)
    /\ startTime = IF sc.started THEN now - 60000 ELSE now
    /\ elapsedTime = IF sc.started THEN 60000 ELSE 0
    /\ difficulty = sc.difficulty
    /\ environment = sc.environment
    /\ mobileControls = sc.mobile
    /\ currentPitch = 0 /\ currentRoll = 0 /\ currentThrottle = 0
    /\ mobileIsShooting = FALSE
    /\ joysticks = sc.mobile
    /\ weatherUpdateInterval = TRUE
    /\ animationFrame = TRUE
    /\ listeners = {[type |-> "keydown", fn |-> "keydown"],
                    [type |-> "keyup", fn |-> "keyup"],
                    [type |-> "resize", fn |-> "onWindowResize.bind 1"]}
    /\ timeouts = <<>>
    /\ weatherDue = now + 2 * frameInterval
    /\ disposed = FALSE
    /\ nextId = balloonCount + 1
    /\ hits = <<>> /\ shootCalls = <<>>
    /\ frames = 0 /\ events = 0

Init == \E sc \in Scenarios : InitOf(sc)

-----------------------------------------------------------------------------
(* Handlers *)

browser == <<now, frameTime, animationFrame, listeners, disposed, frames, events,
             weatherUpdateInterval, difficulty, environment, mobileControls>>

\* a timer callback is due: the browser runs it before the clock moves on
TimerDue ==
    \/ timeouts # <<>> /\ Head(timeouts) <= now
    \/ weatherUpdateInterval /\ weatherDue <= now

mobile == <<currentPitch, currentRoll, currentThrottle, mobileIsShooting, joysticks>>

\* time passes until the next animation frame is due
Tick ==
    /\ now = frameTime
    /\ ~TimerDue
    /\ now' = now + frameInterval
    /\ Commit(Sim)
    /\ UNCHANGED <<frameTime, animationFrame, listeners, disposed, frames, events,
                   weatherUpdateInterval, difficulty, environment, mobileControls, mobile, weatherDue>>

\* the page is hidden for a while: no frame runs, timers still come due
Pause ==
    /\ now = frameTime
    /\ ~TimerDue
    /\ isShooting \/ timeouts # <<>>
    /\ now' = now + pauseInterval
    /\ Commit(Sim)
    /\ UNCHANGED <<frameTime, animationFrame, listeners, disposed, frames, events,
                   weatherUpdateInterval, difficulty, environment, mobileControls, mobile, weatherDue>>

\* the requestAnimationFrame callback: animate() schedules the next one
\* first; a run has at most n frames
AnimateUpTo(n) ==
    /\ animationFrame
    /\ now > frameTime
    /\ frames < n
    /\ \E r \in (IF weatherIntensity > 500 /\ ~isGameOver THEN RandomDraws ELSE {<<0, 0>>}) :
           Commit(animate(Sim, now, r[1], r[2]))
    /\ animationFrame' = TRUE
    /\ frameTime' = now
    /\ frames' = frames + 1
    /\ UNCHANGED <<now, listeners, disposed, events, weatherUpdateInterval,
                   difficulty, environment, mobileControls, mobile, weatherDue>>

Animate == AnimateUpTo(MaxFrames)

\* the body of the keydown listener (lines 168-174), for the key k
keydown(s, k, t) ==
    LET s1 == [s EXCEPT !.keys = @ \cup {k},
                        !.isShooting = IF k = " " THEN TRUE ELSE @]
    IN IF k = "r" THEN resetAirplane(s1, t) ELSE s1

\* the body of the keyup listener (lines 181-184), for the key k
keyup(s, k) ==
    [s EXCEPT !.keys = @ \ {k},
              !.isShooting = IF k = " " THEN FALSE ELSE @]

\* the keydown listener of line 167, for the key k
KeyDownOf(k) ==
    /\ [type |-> "keydown", fn |-> "keydown"] \in listeners
    /\ events < MaxEvents
    /\ Commit(keydown(Sim, k, now))
    /\ events' = events + 1
    /\ UNCHANGED <<now, frameTime, animationFrame, listeners, disposed, frames,
                   weatherUpdateInterval, difficulty, environment, mobileControls, weatherDue, mobile>>

KeyDown == \E k \in Keys : KeyDownOf(k)

\* the keyup listener of line 180
KeyUp ==
    /\ [type |-> "keyup", fn |-> "keyup"] \in listeners
    /\ events < MaxEvents
    /\ \E k \in keys : Commit(keyup(Sim, k))
    /\ events' = events + 1
    /\ UNCHANGED <<now, frameTime, animationFrame, listeners, disposed, frames,
                   weatherUpdateInterval, difficulty, environment, mobileControls, weatherDue, mobile>>

\* the setInterval callback of line 161
WeatherTimer ==
    /\ weatherUpdateInterval
    /\ weatherDue <= now
    /\ weatherDue' = now + weatherInterval
    /\ Commit(updateWeather(Sim, now))
    /\ UNCHANGED <<browser, mobile>>

\* the setTimeout callback of line 505, once its delay has passed
RespawnTimer ==
    /\ timeouts # <<>>
    /\ Head(timeouts) <= now
    /\ \E pos \in RespawnPositions, vel \in RespawnVelocities :
           Commit(respawn(Sim, pos, vel))
    /\ UNCHANGED <<browser, mobile, weatherDue>>

\* MobileControls.updateControls with the fields as given
updateControls(p, r, th, fire) ==
    Commit(handleMobileControls(Sim,
        [pitch |-> p, roll |-> r, throttle |-> th > 300, brake |-> th < -300,
         fire |-> fire]))

\* the left joystick's 'move' and 'end' (part_000 lines 72-82)
LeftMove ==
    /\ mobileControls /\ joysticks
    /\ events < MaxEvents
    /\ \E x, y \in AxisValues :
           /\ currentPitch' = -y
           /\ currentRoll' = -x
           /\ updateControls(-y, -x, currentThrottle, mobileIsShooting)
    /\ events' = events + 1
    /\ UNCHANGED <<now, frameTime, animationFrame, listeners, disposed, frames,
                   weatherUpdateInterval, difficulty, environment, mobileControls, weatherDue,
                   currentThrottle, mobileIsShooting, joysticks>>

LeftEnd ==
    /\ mobileControls /\ joysticks
    /\ events < MaxEvents
    /\ currentPitch' = 0
    /\ currentRoll' = 0
    /\ updateControls(0, 0, currentThrottle, mobileIsShooting)
    /\ events' = events + 1
    /\ UNCHANGED <<now, frameTime, animationFrame, listeners, disposed, frames,
                   weatherUpdateInterval, difficulty, environment, mobileControls, weatherDue,
                   currentThrottle, mobileIsShooting, joysticks>>

\* the right joystick's 'move' and 'end' (part_000 lines 85-94)
RightMove ==
    /\ mobileControls /\ joysticks
    /\ events < MaxEvents
    /\ \E y \in AxisValues :
           /\ currentThrottle' = -y
           /\ updateControls(currentPitch, currentRoll, -y, mobileIsShooting)
    /\ events' = events + 1
    /\ UNCHANGED <<now, frameTime, animationFrame, listeners, disposed, frames,
                   weatherUpdateInterval, difficulty, environment, mobileControls, weatherDue,
                   currentPitch, currentRoll, mobileIsShooting, joysticks>>

RightEnd ==
    /\ mobileControls /\ joysticks
    /\ events < MaxEvents
    /\ currentThrottle' = 0
    /\ updateControls(currentPitch, currentRoll, 0, mobileIsShooting)
    /\ events' = events + 1
    /\ UNCHANGED <<now, frameTime, animationFrame, listeners, disposed, frames,
                   weatherUpdateInterval, difficulty, environment, mobileControls, weatherDue,
                   currentPitch, currentRoll, mobileIsShooting, joysticks>>

\* the container's touchstart, for a touch on neither joystick, and its
\* touchend (part_000 lines 97-114); dispose() does not remove them
TouchStart ==
    /\ mobileControls
    /\ events < MaxEvents
    /\ mobileIsShooting' = TRUE
    /\ updateControls(currentPitch, currentRoll, currentThrottle, TRUE)
    /\ events' = events + 1
    /\ UNCHANGED <<now, frameTime, animationFrame, listeners, disposed, frames,
                   weatherUpdateInterval, difficulty, environment, mobileControls, weatherDue,
                   currentPitch, currentRoll, currentThrottle, joysticks>>

TouchEnd ==
    /\ mobileControls
    /\ events < MaxEvents
    /\ mobileIsShooting' = FALSE
    /\ updateControls(currentPitch, currentRoll, currentThrottle, FALSE)
    /\ events' = events + 1
    /\ UNCHANGED <<now, frameTime, animationFrame, listeners, disposed, frames,
                   weatherUpdateInterval, difficulty, environment, mobileControls, weatherDue,
                   currentPitch, currentRoll, currentThrottle, joysticks>>

\* window.removeEventListener(type, fn): only the very function registered is removed
removeEventListener(ls, type, fn) == ls \ {[type |-> type, fn |-> fn]}

\* dispose() (lines 834-843): the resize listener is asked to go under a
\* function bound anew, the joysticks are destroyed, the weather interval is
\* cleared; the pending animation frame and timeouts are not cancelled
Dispose ==
    /\ ~disposed
    /\ events < MaxEvents
    /\ events' = events + 1
    /\ listeners' = removeEventListener(listeners, "resize", "onWindowResize.bind 2")
    /\ joysticks' = FALSE
    /\ weatherUpdateInterval' = FALSE
    /\ disposed' = TRUE
    /\ Commit(Sim)
    /\ UNCHANGED <<now, frameTime, animationFrame, frames, difficulty, environment,
                   mobileControls, weatherDue, currentPitch, currentRoll, currentThrottle,
                   mobileIsShooting>>

Next ==
    \/ Tick \/ Pause \/ Animate \/ KeyDown \/ KeyUp \/ WeatherTimer \/ RespawnTimer
    \/ LeftMove \/ LeftEnd \/ RightMove \/ RightEnd \/ TouchStart \/ TouchEnd
    \/ Dispose

Spec == Init /\ [][Next]_vars

-----------------------------------------------------------------------------
(* Two longer flights, frame after frame, with the keys held from the start *)
(* and released at any moment                                              *)

\* at rest on the initial position, throttle held
ThrottleScenario ==
    [position |-> initialPosition, speed |-> 0, pitch |-> 0, roll |-> 0,
     health |-> initialHealth, keys |-> {"w"}, mobile |-> FALSE, started |-> FALSE,
     difficulty |-> "simple", environment |-> "default", now |-> 112094]

InitThrottle == InitOf(ThrottleScenario)

NextThrottle ==
    \/ Tick \/ AnimateUpTo(MaxThrottleFrames) \/ WeatherTimer \/ KeyUp

SpecThrottle == InitThrottle /\ [][NextThrottle]_vars

\* low over the ground, nose down at speed 2, throttle held
LandingScenario ==
    [position |-> <<0, 600, 0>>, speed |-> 2000, pitch |-> -300, roll |-> 0,
     health |-> initialHealth, keys |-> {"w"}, mobile |-> FALSE, started |-> TRUE,
     difficulty |-> "simple", environment |-> "default", now |-> 112094]

\* the same approach at speed 1.05, the down arrow held
TouchdownScenario ==
    [position |-> <<0, 600, 0>>, speed |-> 1050, pitch |-> -300, roll |-> 0,
     health |-> initialHealth, keys |-> {"ArrowDown"}, mobile |-> FALSE, started |-> TRUE,
     difficulty |-> "simple", environment |-> "default", now |-> 112094]

InitLanding == InitOf(LandingScenario) \/ InitOf(TouchdownScenario)

NextLanding ==
    \/ Tick \/ AnimateUpTo(MaxLandingFrames) \/ WeatherTimer \/ KeyUp

SpecLanding == InitLanding /\ [][NextLanding]_vars

-----------------------------------------------------------------------------
(* A run that flies at full speed into an obstacle with the last of its    *)
(* health, the fire key held                                               *)

StrikeScenario ==
    [position |-> <<0, 100000, -181000>>, speed |-> 3000, pitch |-> 0, roll |-> 0,
     health |-> 10, keys |-> {" "}, mobile |-> FALSE, started |-> TRUE,
     difficulty |-> "simple", environment |-> "default", now |-> 112094]

InitStrike == InitOf(StrikeScenario)

NextStrike ==
    \/ Tick \/ Pause \/ AnimateUpTo(MaxStrikeFrames) \/ KeyDown \/ KeyUp
    \/ WeatherTimer \/ RespawnTimer

SpecStrike == InitStrike /\ [][NextStrike]_vars

-----------------------------------------------------------------------------
(* A hard game left on the runway, the left arrow held, while the targets  *)
(* patrol                                                                  *)

PatrolScenario ==
    [position |-> initialPosition, speed |-> 0, pitch |-> 0, roll |-> 0,
     health |-> initialHealth, keys |-> {"ArrowLeft"}, mobile |-> FALSE, started |-> FALSE,
     difficulty |-> "hard", environment |-> "default", now |-> 112094]

InitPatrol == InitOf(PatrolScenario)

NextPatrol ==
    \/ Tick \/ AnimateUpTo(MaxPatrolFrames) \/ WeatherTimer \/ KeyUp

SpecPatrol == InitPatrol /\ [][NextPatrol]_vars

-----------------------------------------------------------------------------
(* A run that has flown south for a while and fires 995 units from the     *)
(* origin                                                                  *)

RangeScenario ==
    [position |-> <<0, 100000, -990000>>, speed |-> 3000, pitch |-> 0, roll |-> 0,
     health |-> initialHealth, keys |-> {" "}, mobile |-> FALSE, started |-> TRUE,
     difficulty |-> "simple", environment |-> "default", now |-> 112094]

InitRange == InitOf(RangeScenario)

NextRange ==
    \/ Tick \/ Pause \/ AnimateUpTo(MaxRangeFrames) \/ KeyDown \/ KeyUp \/ WeatherTimer

SpecRange == InitRange /\ [][NextRange]_vars

-----------------------------------------------------------------------------
(* The two games with targets ahead and the fire key held, followed until  *)
(* every pending respawn has run: the browser's clock keeps going, whether *)
(* or not frames run, and each timer callback that is due is run           *)

\* time passes until the next respawn is due
Elapse ==
    /\ ~TimerDue
    /\ timeouts # <<>>
    /\ now' = Head(timeouts)
    /\ Commit(Sim)
    /\ UNCHANGED <<frameTime, animationFrame, listeners, disposed, frames, events,
                   weatherUpdateInterval, difficulty, environment, mobileControls,
                   mobile, weatherDue>>

InitRespawn == \E sc \in Scenarios : " " \in sc.keys /\ InitOf(sc)

NextRespawn ==
    \/ Tick \/ Pause \/ AnimateUpTo(MaxRespawnFrames) \/ KeyUp
    \/ WeatherTimer \/ RespawnTimer \/ Elapse

SpecRespawn ==
    /\ InitRespawn /\ [][NextRespawn]_vars
    /\ WF_vars(Elapse) /\ WF_vars(WeatherTimer) /\ WF_vars(RespawnTimer)

-----------------------------------------------------------------------------
(* The same runs, two frames long, for the comparison across environments *)

NextEnvironment ==
    \/ Tick \/ Pause \/ AnimateUpTo(MaxEnvironmentFrames) \/ KeyDown \/ KeyUp
    \/ WeatherTimer \/ RespawnTimer
    \/ LeftMove \/ LeftEnd \/ RightMove \/ RightEnd \/ TouchStart \/ TouchEnd
    \/ Dispose

SpecEnvironment == Init /\ [][NextEnvironment]_vars

-----------------------------------------------------------------------------
(* Properties *)

\* an animation frame has run in this step
Frame == frames' = frames + 1

\* an input event (keyboard, joystick, touch) or dispose() has run in this step
Event == events' = events + 1

\* the position of every live target, by identity
TargetPositions == {<<balloons[j].id, balloons[j].position>> : j \in 1..Len(balloons)}

\* C1 (GameOver freeze): a frame that starts and ends in GameOver leaves the
\* aircraft position, the score and every target's position unchanged, in
\* either difficulty.
C1_GameOverFreeze ==
    [][(isGameOver /\ isGameOver' /\ Frame)
        => /\ position' = position
           /\ score' = score
           /\ TargetPositions' = TargetPositions]_vars

\* C2 (health is never negative): in every reachable state 0 <= health <= 100.
C2_HealthInRange == 0 <= health /\ health <= initialHealth

\* C3 (speed bounds): in every reachable state 0 <= speed <= maxSpeed, and a
\* speed above 0 is at least minSpeed.
C3_SpeedBounds ==
    /\ 0 <= speed /\ speed <= maxSpeed
    /\ speed > 0 => speed >= minSpeed

\* C4 (phase follows health): after every handler the phase is GameOver
\* exactly when health <= 0, so the frame whose hard landing or collision
\* brings health to 0 or below ends in GameOver; and a step from GameOver
\* back to Flying is the keydown of "r", which calls resetAirplane.
C4_PhaseFollowsHealth ==
    /\ [](isGameOver <=> health <= 0)
    /\ [][(isGameOver /\ ~isGameOver') => KeyDownOf("r")]_vars

\* a collision has taken the last health and more, in the frame that has
\* just ended in GameOver
C4_Witness == isGameOver /\ health < 0 /\ frames > 0 /\ frameTime = now

\* C5 (input is a no-op in GameOver): an input event other than reset, taken
\* in GameOver, leaves speed, pitch, roll, yaw, position, health and the
\* projectile list unchanged. (A reset is the one event that leaves GameOver.)
C5_InputNoOpInGameOver ==
    [][(isGameOver /\ isGameOver' /\ Event)
        => UNCHANGED <<speed, pitch, roll, yaw, position, health, bullets>>]_vars

\* C6 (reset restores pose): the step of resetAirplane, from any state, ends
\* with the aircraft at the initial position and rotation, yaw = pitch =
\* roll = 0, speed = 0, health = 100 and the phase Flying.
C6_ResetRestoresPose ==
    [][KeyDownOf("r")
        => /\ position' = initialPosition
           /\ rotation' = initialRotation
           /\ yaw' = 0 /\ pitch' = 0 /\ roll' = 0
           /\ speed' = 0
           /\ health' = initialHealth
           /\ ~isGameOver']_vars

\* "r" has been pressed after the aircraft flew into the ground and the game
\* was over (the low-health approach of the hard game: altitude keeps the
\* height of that last frame, the timer its instant), and the pose is back
C6_Witness ==
    /\ "r" \in keys /\ difficulty = "hard"
    /\ altitude < groundFloor /\ frames > 0 /\ startTime = now
    /\ position = initialPosition /\ speed = 0 /\ health = initialHealth
    /\ ~isGameOver

\* C7 (target pool conservation): in every reachable state the live targets
\* and the pending respawn timers together number 20.
C7_TargetPoolConserved == Len(balloons) + Len(timeouts) = balloonCount

\* a target was hit and its respawn timer has run: a target created after
\* the first 20 is live, and no timer is pending
C7_Witness ==
    /\ score > 0 /\ timeouts = <<>>
    /\ \E j \in 1..Len(balloons) : balloons[j].id > balloonCount

\* C8 (hit consumption): in one updateBullets pass no projectile hits twice,
\* a projectile that hit is no longer in the list, and the pass removes one
\* target and adds 100 to the score per hit.
C8_HitConsumption ==
    /\ [](/\ \A a, b \in 1..Len(hits) : hits[a].bullet = hits[b].bullet => a = b
          /\ \A a \in 1..Len(hits) :
                 \A i \in 1..Len(bullets) : bullets[i].id # hits[a].bullet)
    /\ [][(~isGameOver /\ Frame)
           => /\ score' = score + hitReward * Len(hits')
              /\ Len(balloons') = Len(balloons) - Len(hits')]_vars

\* a projectile has hit one target while another live target was within the
\* hit radius of it
C8_Witness ==
    \E a \in 1..Len(hits) :
        /\ \E j \in 1..Len(balloons) :
               DistanceBelow(hits[a].at, balloons[j].position, hitRadius)
        /\ score = hitReward
        /\ Len(balloons) = balloonCount - 1

\* the shoot() calls so far, by their place in the log
Calls == 1..Len(shootCalls)

RECURSIVE LastShotBefore(_)
\* lastShot as call k finds it: the time of the latest spawning call before
\* it, or the constructor's 0
LastShotBefore(k) ==
    IF k <= 1 THEN 0
    ELSE IF shootCalls[k - 1].spawned THEN shootCalls[k - 1].at
    ELSE LastShotBefore(k - 1)

\* C9 as stated (cooldown), read for calls made while Flying: any two shoot
\* calls less than shotCooldown apart spawn exactly one projectile between
\* them, and a call at least shotCooldown after the call before it spawns one.
C9_AnyTwoCalls ==
    /\ \A a, b \in Calls :
           (/\ a < b /\ shootCalls[a].flying /\ shootCalls[b].flying
            /\ shootCalls[b].at - shootCalls[a].at < shotCooldown)
               => (shootCalls[a].spawned # shootCalls[b].spawned)
    /\ \A b \in Calls :
           (/\ b > 1 /\ shootCalls[b].flying
            /\ shootCalls[b].at - shootCalls[b - 1].at >= shotCooldown)
               => shootCalls[b].spawned

\* C9 amended (cooldown): a shoot call spawns a projectile exactly when the
\* phase is Flying and at least shotCooldown has passed since the latest
\* spawning call; so two calls less than shotCooldown apart spawn at most one
\* projectile between them, and a Flying call at least shotCooldown after
\* every earlier call spawns one. lastShot is the time of the latest spawning
\* call, and a frame creates one projectile if its call spawned and none
\* otherwise.
C9_Cooldown ==
    /\ [](/\ \A k \in Calls :
                 shootCalls[k].spawned
                     <=> (shootCalls[k].flying
                          /\ shootCalls[k].at - LastShotBefore(k) >= shotCooldown)
          /\ \A a, b \in Calls :
                 (a < b /\ shootCalls[b].at - shootCalls[a].at < shotCooldown)
                     => ~(shootCalls[a].spawned /\ shootCalls[b].spawned)
          /\ lastShot = LastShotBefore(Len(shootCalls) + 1))
    /\ [][Frame
           => nextId' - nextId =
                  (IF Len(shootCalls') > Len(shootCalls)
                      /\ shootCalls'[Len(shootCalls')].spawned
                   THEN 1 ELSE 0)]_vars

\* three calls while Flying: the first spawns, the second, inside the
\* cooldown, does not, the third, after it, spawns
C9_Witness ==
    /\ Len(shootCalls) = 3
    /\ \A k \in Calls : shootCalls[k].flying
    /\ shootCalls[1].spawned
    /\ ~shootCalls[2].spawned /\ shootCalls[2].at - shootCalls[1].at < shotCooldown
    /\ shootCalls[3].spawned /\ shootCalls[3].at - shootCalls[1].at >= shotCooldown
    /\ Len(bullets) + Len(hits) = 2

\* the simulator's own state: everything but the clock and the browser's
\* bookkeeping
simulation == <<speed, pitch, roll, yaw, altitude, position, rotation, keys, bullets,
                balloons, score, lastShot, health, isGameOver, weatherIntensity,
                startTime, elapsedTime, isShooting>>

\* C10 (dispose stops everything): once dispose() has returned no animation
\* frame is pending and none runs, the weather interval is cleared, none of
\* the constructor's window listeners is attached, and no simulator state
\* changes.
C10_DisposeStopsEverything ==
    [][disposed
        => /\ ~animationFrame /\ frames' = frames
           /\ ~weatherUpdateInterval
           /\ listeners = {}
           /\ UNCHANGED simulation]_vars

\* the identities of the live projectiles and of the live targets
BulletIds == {bullets[i].id : i \in 1..Len(bullets)}
BalloonIds == {balloons[j].id : j \in 1..Len(balloons)}

\* C11 (hit scenario): a frame that starts with one live projectile within
\* the hit radius of a live target removes that projectile and that target,
\* adds exactly 100 to the score and schedules exactly one respawn.
C11_HitScenario ==
    [][(~isGameOver /\ Frame /\ Len(bullets) = 1)
        => \A j \in 1..Len(balloons) :
               DistanceBelow(bullets[1].position, balloons[j].position, hitRadius)
                   => /\ bullets[1].id \notin BulletIds'
                      /\ balloons[j].id \notin BalloonIds'
                      /\ score' = score + hitReward
                      /\ Len(timeouts') = Len(timeouts) + 1]_vars

\* C12 (altitude floor): in every reachable state the aircraft's height,
\* position.y, is at least the floor 0.5, whatever the frame did (descent
\* into the ground, gusts, an obstacle's knockback).
C12_AltitudeFloor == position[2] >= groundFloor

\* a frame has taken the aircraft below the floor (the height it recorded
\* before the clamp is below it) and has put it back on the floor
C12_Witness == frames > 0 /\ altitude < groundFloor /\ position[2] = groundFloor

\* C13 (orientation bounds): in every reachable state, after every frame and
\* every keyboard or joystick event, |pitch| <= PI / 3 and |roll| <= PI / 3.
C13_OrientationBounds == Abs(pitch) <= PiThird /\ Abs(roll) <= PiThird

\* a frame with the down arrow held has stopped the pitch at its limit
C13_Witness == frames > 0 /\ "ArrowDown" \in keys /\ pitch = -PiThird

\* C14 (no spawns while GameOver): a step that starts or ends in GameOver
\* (a frame with the fire key held, the frame that ends the game, an input
\* event, a timer, the reset) adds no projectile to the list.
C14_NoSpawnsInGameOver ==
    [][(isGameOver \/ isGameOver') => BulletIds' \subseteq BulletIds]_vars

\* the game is over, fire is held, and shoot() has been called in GameOver
\* with the cooldown long elapsed
C14_Witness ==
    /\ isGameOver /\ isShooting
    /\ \E k \in Calls :
           ~shootCalls[k].flying /\ shootCalls[k].at - lastShot >= shotCooldown

\* C15 (score survives reset): the step of resetAirplane leaves the score,
\* the projectile list and the target list as they are; the score is never
\* negative and no step lowers it.
C15_ScoreSurvivesReset ==
    /\ [](score >= 0)
    /\ [][score' >= score]_vars
    /\ [][KeyDownOf("r") => UNCHANGED <<score, bullets, balloons>>]_vars

\* "r" has been pressed with points scored, a projectile in flight and a
\* target awaiting its respawn
C15_Witness ==
    /\ "r" \in keys /\ position = initialPosition /\ startTime = now
    /\ score > 0 /\ bullets # <<>> /\ Len(balloons) < balloonCount

\* C16 (one collision per frame): a frame that does not touch the ground
\* lowers health by at most 20; and a frame that lowers health by 20 or more
\* has resolved a collision with an obstacle: it leaves the aircraft pushed
\* out to 20 units or more from that obstacle (and less than 20 units beyond
\* the collision threshold) and the speed it flew at multiplied by 0.3.
C16_OneCollisionPerFrame ==
    [][Frame
        => /\ altitude' >= groundFloor => health' >= health - collisionDamage
           /\ health' <= health - collisionDamage
                  => /\ \E i \in 1..obstacleCount :
                            /\ ~DistanceBelow(position', obstacles[i], collisionPush)
                            /\ DistanceBelow(position', obstacles[i],
                                             collisionPush + collisionRadius + obstacleMargin)
                     /\ speed' = Scale(weatherPenalty(clampMinSpeed(throttle(Sim))).speed, 300)]_vars

\* a frame has flown the aircraft into an obstacle's reach: 20 health lost,
\* the aircraft pushed back out of it
C16_Witness ==
    /\ frames > 0 /\ health = initialHealth - collisionDamage
    /\ \E i \in 1..obstacleCount :
           /\ ~DistanceBelow(position, obstacles[i], collisionPush)
           /\ DistanceBelow(position, obstacles[i],
                            collisionPush + collisionRadius + obstacleMargin)

\* the throttle key has been held since the start of the run
ThrottleHeld == events = 0 /\ "w" \in keys

\* C17 as stated (scenario A): from rest, with the throttle held, speed is
\* 0.5 after the 10th frame.
C17_HalfAfterTenFrames == (ThrottleHeld /\ frames = 10) => speed = minSpeed

\* C17 amended (scenario A): from rest, with the throttle held, in calm
\* weather and off the ground, the first frame takes speed to minSpeed 0.5
\* (0.05, raised by the minimum-speed clamp), every later frame adds 0.05,
\* and speed stays at maxSpeed 3 once there: 0.95 after the 10th frame, 3
\* from the 51st on.
C17_ThrottleFromRest ==
    ThrottleHeld
        => speed = (IF frames = 0 THEN 0
                    ELSE Min(maxSpeed, minSpeed + throttleStep * (frames - 1)))

\* the throttle has been held from rest through every frame of the run, far
\* more than 10, and speed has stopped at maxSpeed
C17_Witness ==
    /\ ThrottleHeld /\ frames >= MaxThrottleFrames /\ speed = maxSpeed
    /\ weatherIntensity <= 500 /\ position[2] > groundFloor /\ health = initialHealth

\* hard landings so far, in a run where nothing else costs health
HardLandings == (initialHealth - health) \div hardLandingDamage

\* C18 as stated (scenario C): from health 100, the third hard landing ends
\* the game.
C18_ThirdHardLanding == HardLandings = 3 => isGameOver

\* C18 amended (scenario C): from health 100, with each hard landing costing
\* 10, the game is over exactly when ten hard landings have happened: a frame
\* makes at most one, and the frame that ends the game is the one whose
\* landing brings health to 0.
C18_TenthHardLanding ==
    /\ [](isGameOver <=> HardLandings = 10)
    /\ [](HardLandings <= frames)
    /\ [][(~isGameOver /\ isGameOver')
           => /\ Frame /\ altitude' < groundFloor
              /\ health' = health - hardLandingDamage /\ health' = 0]_vars

\* ten frames, each a hard landing, and the game is over
C18_Witness == isGameOver /\ frames = 10 /\ HardLandings = 10 /\ altitude < groundFloor

\* the keys that throttle, pitch or roll the aircraft
FlightKeys == {"w", "s", "ArrowUp", "ArrowDown", "ArrowLeft", "ArrowRight"}

\* C19 (zero-input stability): a frame flown level (pitch and roll 0) with
\* no throttle, pitch or roll key held, weather intensity at most 0.5, no
\* ground contact and no collision leaves speed and the aircraft's altitude
\* as they were.
C19_ZeroInputStability ==
    [][(/\ Frame /\ ~isGameOver
        /\ keys \cap FlightKeys = {}
        /\ pitch = 0 /\ roll = 0
        /\ weatherIntensity <= 500
        /\ altitude' >= groundFloor
        /\ health' = health)
        => /\ speed' = speed
           /\ position'[2] = position[2]]_vars

\* C20 (elapsed time): startTime is the moment of the latest reset (or of
\* construction) and only a reset moves it; a frame that ends Flying sets
\* elapsedTime to the time since startTime, so the clock starts over after a
\* reset and, from one frame to the next with no reset between, never goes
\* back; a frame in GameOver leaves elapsedTime as it is.
C20_ElapsedTime ==
    /\ [][KeyDownOf("r") => startTime' = now]_vars
    /\ [][startTime' # startTime => KeyDownOf("r")]_vars
    /\ [][(Frame /\ ~isGameOver') => elapsedTime' = now - startTime']_vars
    /\ [][(Frame /\ ~isGameOver' /\ startTime < frameTime) => elapsedTime' >= elapsedTime]_vars
    /\ [][(Frame /\ isGameOver') => elapsedTime' = elapsedTime]_vars

\* a game a minute old was reset, and a later frame shows the short time
\* since the reset
C20_Witness ==
    /\ difficulty = "hard" /\ "r" \in keys /\ ~isGameOver
    /\ elapsedTime = now - startTime /\ 0 < elapsedTime /\ elapsedTime < 60000

\* the simulator as it stands, had it been constructed with difficulty d
WithDifficulty(d) == [Sim EXCEPT !.difficulty = d]

\* the same, with the aircraft 15 units from obstacle i, inside its reach
AtObstacle(d, i) ==
    [WithDifficulty(d) EXCEPT !.position = VAdd(obstacles[i], <<0, 0, 15000>>)]

\* C21 (difficulty amplifies hazards): in flight, in weather above 0.5, the
\* same state taken with difficulty 'hard' loses strictly more speed to the
\* weather penalty than with 'simple', or loses strictly more health or
\* speed to the same obstacle collision.
C21_DifficultyAmplifiesHazards ==
    (~isGameOver /\ speed > 0 /\ weatherIntensity > 500)
        => \/ weatherPenalty(WithDifficulty("hard")).speed
                  < weatherPenalty(WithDifficulty("simple")).speed
           \/ \A i \in 1..obstacleCount :
                  \/ checkCollisions(AtObstacle("hard", i)).health
                         < checkCollisions(AtObstacle("simple", i)).health
                  \/ checkCollisions(AtObstacle("hard", i)).speed
                         < checkCollisions(AtObstacle("simple", i)).speed

\* the simulator as it stands, had it been constructed with environment e
WithEnvironment(e) == [Sim EXCEPT !.environment = e]

\* what the claims call physics: speed, orientation, position, health,
\* score, phase, projectiles and targets
Physics(s) ==
    <<s.speed, s.pitch, s.roll, s.yaw, s.position, s.rotation, s.health, s.score,
      s.isGameOver, s.bullets, s.balloons>>

\* the random draws a frame may take in the current state
FrameDraws == IF weatherIntensity > 500 /\ ~isGameOver THEN RandomDraws ELSE {<<0, 0>>}

\* the control record MobileControls.updateControls builds from its fields
MobileRecord ==
    [pitch |-> currentPitch, roll |-> currentRoll,
     throttle |-> currentThrottle > 300, brake |-> currentThrottle < -300,
     fire |-> mobileIsShooting]

\* a joystick or touch event has run in this step
MobileEvent == LeftMove \/ LeftEnd \/ RightMove \/ RightEnd \/ TouchStart \/ TouchEnd

\* C22 (environment does not affect physics): the environment never changes,
\* and whatever step the simulator takes (a frame with its random draws, a
\* key event, the weather timer, a respawn, a mobile control record), the
\* same handler with the same input and draws, run on a simulator that
\* differs only in its environment, ends with the same speed, orientation,
\* position, health, score, phase, projectiles and targets; so two
\* simulators that differ only in environment agree on them after every step.
C22_EnvironmentIndependence ==
    [][/\ environment' = environment
       /\ Frame
              => \A r \in FrameDraws :
                     Physics(animate(Sim, now, r[1], r[2])) = Physics(Sim')
                         => \A e \in Environments \ {environment} :
                                Physics(animate(WithEnvironment(e), now, r[1], r[2]))
                                    = Physics(Sim')
       /\ Event
              => /\ \A k \in Keys :
                        KeyDownOf(k)
                            => \A e \in Environments \ {environment} :
                                   Physics(keydown(WithEnvironment(e), k, now)) = Physics(Sim')
                 /\ \A k \in keys :
                        (keys' = keys \ {k} /\ Physics(keyup(Sim, k)) = Physics(Sim'))
                            => \A e \in Environments \ {environment} :
                                   Physics(keyup(WithEnvironment(e), k)) = Physics(Sim')
                 /\ MobileEvent
                        => \A e \in Environments \ {environment} :
                               Physics(handleMobileControls(WithEnvironment(e), MobileRecord'))
                                   = Physics(Sim')
       /\ weatherDue' # weatherDue
              => \A e \in Environments \ {environment} :
                     Physics(updateWeather(WithEnvironment(e), now)) = Physics(Sim')
       /\ Len(timeouts') < Len(timeouts)
              => \A pos \in RespawnPositions, vel \in RespawnVelocities :
                     Physics(respawn(Sim, pos, vel)) = Physics(Sim')
                         => \A e \in Environments \ {environment} :
                                Physics(respawn(WithEnvironment(e), pos, vel)) = Physics(Sim')]_vars

\* a night game, dark ground under a dark sky, with points scored
C22_Witness ==
    /\ sceneBackground(environment) # sceneBackground("default")
    /\ groundColor(environment) # groundColor("default")
    /\ frames > 0 /\ score > 0 /\ speed > 0

\* C23 (mobile throttle mapping): when the right joystick reports the
\* vertical axis value v, the control record passed to the core has
\* throttle = (v > 0.3) and brake = (v < -0.3), and never both.
C23_MobileThrottleMapping ==
    [][\A v \in AxisValues :
           (RightMove /\ currentThrottle' = -v)
               => /\ MobileRecord'.throttle = (v > 300)
                  /\ MobileRecord'.brake = (v < -300)
                  /\ ~(MobileRecord'.throttle /\ MobileRecord'.brake)]_vars

\* the speed a frame flies at, before any ground-contact penalty: the speed
\* after throttle, minimum-speed clamp and weather penalty
FlownSpeed == weatherPenalty(clampMinSpeed(throttle(Sim))).speed

\* C24 (hard-landing threshold uses the pre-penalty speed): a frame in which
\* the altitude falls below the floor 0.5 takes 10 health exactly when the
\* speed before the 0.1 ground-contact penalty exceeds 1.
C24_PrePenaltyThreshold ==
    [][(Frame /\ ~isGameOver /\ altitude' < groundFloor)
        => (health' = health - hardLandingDamage <=> FlownSpeed > hardLandingSpeed)]_vars

\* C25 (score changes only while Flying): a step that raises the score ends
\* with the phase Flying; and the frame that ends the game (a hard landing
\* or a collision taking the last health) awards no points and removes no
\* target in the projectile pass that follows in the same updateFlight call.
C25_ScoreOnlyWhileFlying ==
    /\ [][score' > score => ~isGameOver']_vars
    /\ [][(Frame /\ ~isGameOver /\ isGameOver')
           => score' = score /\ BalloonIds' = BalloonIds]_vars

\* a position beyond a soft bound of updateBalloons
Outside(p) ==
    \/ Abs(p[1]) > balloonBounds
    \/ Abs(p[2] - 125000) > 75000
    \/ Abs(p[3]) > balloonBounds

\* how far a position is beyond the vertical bound
Overshoot(p) == Max(0, Abs(p[2] - 125000) - 75000)

\* target id was spawned beyond the vertical bound, by no more than its
\* patrol velocity covers in the frames of the run
StartsJustOutside(id) ==
    /\ Overshoot(balloonStart(id)) > 0
    /\ Overshoot(balloonStart(id)) <= MaxPatrolFrames * Abs(balloonVelocity(id)[2])

\* C26 (patrol targets return to bounds): in 'hard' difficulty a target
\* spawned beyond a soft bound (y above 200), near enough for its reversed
\* velocity to carry it back within the frames of the run, is inside the
\* bounds once those frames have run.
C26_PatrolReturns ==
    (difficulty = "hard" /\ frames = MaxPatrolFrames)
        => \A j \in 1..Len(balloons) :
               (balloons[j].id <= balloonCount /\ StartsJustOutside(balloons[j].id))
                   => ~Outside(balloons[j].position)

\* the shoot() call of the latest frame spawned a projectile: it is the last
\* of the list and has not moved yet
FreshBullet ==
    /\ bullets # <<>> /\ shootCalls # <<>>
    /\ shootCalls[Len(shootCalls)].spawned
    /\ shootCalls[Len(shootCalls)].at = frameTime

\* C27 (projectile range expiry): the update pass removes a projectile
\* exactly when its travel from its spawn point exceeds the range 1000 or
\* it hits a target, wherever the aircraft fired from; so the first update
\* of a projectile, which takes it 12 units from its spawn point, removes it
\* only by a hit.
C27_RangeFromSpawn ==
    [][(Frame /\ ~isGameOver /\ FreshBullet)
        => \/ bullets[Len(bullets)].id \in BulletIds'
           \/ \E a \in 1..Len(hits') : hits'[a].bullet = bullets[Len(bullets)].id]_vars

\* C28 (respawn liveness): every hit schedules one respawn 2000 ms after
\* the frame of the hit; a respawn callback runs no earlier than that,
\* consumes its timer and inserts exactly one target, a new one, which in
\* 'hard' difficulty has a patrol velocity; nothing else inserts a target or
\* consumes a timer; and whenever targets are missing, the count of live
\* targets is eventually back at 20.
C28_RespawnLiveness ==
    /\ [][Frame
           => timeouts' = timeouts \o [a \in 1..Len(hits') |-> now + respawnDelay]]_vars
    /\ [][Len(timeouts') < Len(timeouts)
           => /\ Head(timeouts) <= now
              /\ timeouts' = Tail(timeouts)
              /\ Len(balloons') = Len(balloons) + 1
              /\ SubSeq(balloons', 1, Len(balloons)) = balloons
              /\ balloons'[Len(balloons')].id \notin BalloonIds
              /\ difficulty = "hard" => balloons'[Len(balloons')].velocity # NoVelocity]_vars
    /\ [][Len(balloons') > Len(balloons) => Len(timeouts') = Len(timeouts) - 1]_vars
    /\ (Len(balloons) < balloonCount) ~> (Len(balloons) = balloonCount)

\* in the hard game a target was hit and is back: all 20 are live, no timer
\* is pending, and the one created by the respawn has a patrol velocity
C28_Witness ==
    /\ difficulty = "hard" /\ score > 0
    /\ Len(balloons) = balloonCount /\ timeouts = <<>>
    /\ now >= frameTime + respawnDelay
    /\ \E j \in 1..Len(balloons) :
           balloons[j].id > balloonCount /\ balloons[j].velocity # NoVelocity

\* C29 (weather tick isolation): the weather timer's callback, in Flying or
\* GameOver, changes nothing of speed, orientation, position, health, score,
\* phase, projectiles and targets; and only that callback changes the
\* weather intensity, no frame does.
C29_WeatherTickIsolation ==
    /\ [][WeatherTimer => Physics(Sim') = Physics(Sim)]_vars
    /\ [][weatherIntensity' # weatherIntensity => WeatherTimer]_vars

\* C30 (derived altitude is consistent): at the end of every frame update
\* while Flying, and after every reset, the altitude field the HUD shows
\* equals the aircraft's position.y, also when the ground clamp or an
\* obstacle's knockback has changed position.y in that frame.
C30_AltitudeConsistent ==
    /\ [][(Frame /\ ~isGameOver) => altitude' = position'[2]]_vars
    /\ [][KeyDownOf("r") => altitude' = position'[2]]_vars

====
